---- MODULE Spec2Model ----
(***************************************************************************)
(* A model of the avataaars option registry (OptionContext), the variant   *)
(* Selector and the animation coordinator of AvatarComponent.              *)
(*                                                                         *)
(* Time is kept in milliseconds; every timer carries the time that is left *)
(* until it is due, and the clock advances in steps of 100 ms (every delay *)
(* the inputs below can produce is a multiple of 100 ms).                  *)
(***************************************************************************)
EXTENDS Integers, Sequences, FiniteSets, TLC

VARIABLES
  phase,                      \* "init" (constructed), "mounted", "unmounted"
  props,                      \* the caller's props (AvatarProps)
  mouth, eyes, eyebrow,       \* useState cells of the expression triple
  isHovered, isMouseHovered,  \* useState hover flags
  animationIntervalRef, hoverIntervalRef,
  restoreTimeoutRef, restoreSequenceTimeoutRef,   \* timer handles, 0 = null
  savedStateRef, originalPropsRef, isSchedulingRef, stateRef,
  timers,                     \* the timers pending in the event loop
  pointerOver,                \* the pointer is over the avatar's container
  hovers,                     \* how many times the pointer has entered
  hoverBudget,                \* how many times it may enter in this run
  abandoned,                  \* history: restore timers superseded by a hover-enter
  entry,                      \* history: what the latest hover-enter found pending
  last,                       \* history: the step taken last
  ticks,                      \* history: interval ticks since the latest hover-enter
  ctxState,                   \* OptionContext._state: per catalog key
  ctxData,                    \* OptionContext._data: the explicit values
  stateChangeListeners,       \* OptionContext.stateChangeListeners
  valueChangeListeners,       \* OptionContext.valueChangeListeners, in insertion order
  selectors,                  \* the Selector instances
  calls,                      \* history: the listener calls of the latest step, in order
  lastOp                      \* history: the registry operation of the latest step

compVars == <<mouth, eyes, eyebrow, isHovered, isMouseHovered,
              animationIntervalRef, hoverIntervalRef, restoreTimeoutRef,
              restoreSequenceTimeoutRef, savedStateRef, originalPropsRef,
              isSchedulingRef, stateRef, timers>>

animVars == <<phase, props, compVars, pointerOver, hovers, hoverBudget,
              abandoned, entry, last, ticks>>

regVars == <<ctxState, ctxData, stateChangeListeners, valueChangeListeners,
             selectors, calls, lastOp>>

vars == <<animVars, regVars>>

-----------------------------------------------------------------------------
(* Bounds and input sets *)

\* how many Selector instances share one registry
MaxSelectors == 2

\* how many value listeners callers of the registry subscribe
MaxListeners == 2

\* how many entries of each fallback option list the idle animation draws from
MaxOpts == 2

\* how many times the pointer enters the avatar in one run
MaxHovers == 2

\* the same for the runs that follow repeated re-entries
MaxReentries == 3

\* how many ticks of the hover interval are counted after one hover-enter
MaxTicks == 5

\* Math.floor(Math.random() * 1000) + 1000, sampled
BaseDelays == {1000, 1800}

\* animationSpeed as configured (0: not configured)
RawAnimationSpeeds == {0, 100, 2000}

\* hoverScale as configured, in hundredths (0: not configured)
RawHoverScales == {0, 120}

\* hoverAnimationSpeed as configured
RawHoverAnimationSpeeds == {300}

-----------------------------------------------------------------------------
(* JavaScript values *)

NULL == "null"

Or(a, b) == IF a # NULL THEN a ELSE b

Max(a, b) == IF a >= b THEN a ELSE b

Min(a, b) == IF a <= b THEN a ELSE b

NoTriple == [mouth |-> NULL, eyes |-> NULL, eyebrow |-> NULL]

NoProps == [eyeType |-> NULL, eyebrowType |-> NULL, mouthType |-> NULL]

-----------------------------------------------------------------------------
(* Program constants *)

RestorePause == 600

ChangeDelay == 800

HoldDelay == 100

DefaultSpeed == 2000

MinIdleDelay == 500

MouthFallback ==
  <<"Concerned", "Default", "Disbelief", "Eating", "Grimace", "Sad",
    "ScreamOpen", "Serious", "Smile", "Tongue", "Twinkle", "Vomit">>

EyesFallback ==
  <<"Close", "Cry", "Default", "Dizzy", "EyeRoll", "Happy", "Hearts", "Side",
    "Squint", "Surprised", "Wink", "WinkWacky">>

EyebrowFallback ==
  <<"Angry", "AngryNatural", "Default", "DefaultNatural", "FlatNatural",
    "RaisedExcited", "RaisedExcitedNatural", "SadConcerned",
    "SadConcernedNatural", "UnibrowNatural", "UpDown", "UpDownNatural">>

getFallbackOptions(key) ==
  LET full == CASE key = "mouth" -> MouthFallback
                [] key = "eyes" -> EyesFallback
                [] OTHER -> EyebrowFallback
  IN SubSeq(full, 1, Min(MaxOpts, Len(full)))

getDefaultHoverSequence ==
  <<[mouth |-> "Disbelief", eyes |-> "Surprised", eyebrow |-> "UpDown"],
    [mouth |-> "ScreamOpen", eyes |-> "Dizzy", eyebrow |-> "Angry"],
    [mouth |-> "Vomit", eyes |-> "Close", eyebrow |-> "SadConcerned"],
    [mouth |-> "Grimace", eyes |-> "EyeRoll", eyebrow |-> "UnibrowNatural"]>>

-----------------------------------------------------------------------------
(* Values derived from the props on every render *)

animationSpeed ==
  IF props.animationSpeed # 0
  THEN Max(500, Min(3000, props.animationSpeed)) ELSE 0

hoverAnimationSpeed == Max(100, Min(2000, props.hoverAnimationSpeed))

hoverScale ==
  IF props.hoverScale # 0 THEN Max(105, Min(132, props.hoverScale)) ELSE 0

hasHoverScale == hoverScale # 0 /\ hoverScale > 100

hasHoverAnimation == Len(props.hoverSequence) > 0

hasIdleAnimation == animationSpeed # 0 /\ animationSpeed < 50000

needsHoverHandlers == hasHoverScale \/ hasHoverAnimation

canAnimateExpressions ==
  props.eyeType = NULL /\ props.eyebrowType = NULL /\ props.mouthType = NULL

\* a variant that lets idle animation run next to explicit expression props
isIdleAnimatingDespiteProps == hasIdleAnimation

isIdleAnimating == hasIdleAnimation /\ canAnimateExpressions

-----------------------------------------------------------------------------
(* The component instance as one record, for the handlers below *)

Cur ==
  [mouth |-> mouth, eyes |-> eyes, eyebrow |-> eyebrow,
   isHovered |-> isHovered, isMouseHovered |-> isMouseHovered,
   animationIntervalRef |-> animationIntervalRef,
   hoverIntervalRef |-> hoverIntervalRef,
   restoreTimeoutRef |-> restoreTimeoutRef,
   restoreSequenceTimeoutRef |-> restoreSequenceTimeoutRef,
   savedStateRef |-> savedStateRef, originalPropsRef |-> originalPropsRef,
   isSchedulingRef |-> isSchedulingRef, stateRef |-> stateRef,
   timers |-> timers]

Cells(s) ==
  [isHovered |-> s.isHovered, mouth |-> s.mouth, eyes |-> s.eyes,
   eyebrow |-> s.eyebrow]

Timer(id, kind, rem, idx, target, idle) ==
  [id |-> id, kind |-> kind, rem |-> rem, idx |-> idx, target |-> target,
   idle |-> idle]

UsedIds(s) ==
  {t.id : t \in s.timers} \cup
  {s.animationIntervalRef, s.hoverIntervalRef, s.restoreTimeoutRef,
   s.restoreSequenceTimeoutRef}

\* window.setTimeout / setInterval return a handle no live timer or ref holds
FreshId(s) ==
  CHOOSE n \in 1..(Cardinality(UsedIds(s)) + 1) :
    /\ n \notin UsedIds(s)
    /\ \A m \in 1..(n - 1) : m \in UsedIds(s)

setTimer(s, id, kind, rem, idx, target, idle) ==
  [s EXCEPT !.timers = @ \cup {Timer(id, kind, rem, idx, target, idle)}]

clearTimeout(s, id) == [s EXCEPT !.timers = {t \in @ : t.id # id}]

-----------------------------------------------------------------------------
(* Idle animation *)

\* changeRandomFeature: feature is Math.floor(Math.random() * 3), r stands for
\* the random index into the filtered option list
\* a variant that draws from the whole fallback list, the current value
\* included
changeRandomFeatureAnyOption(s, feature, r) ==
  LET state == s.stateRef
      key == CASE feature = 0 -> "mouth" [] feature = 1 -> "eyes"
               [] OTHER -> "eyebrow"
      opts == getFallbackOptions(key)
      pick == opts[((r - 1) % Len(opts)) + 1]
  IN IF state.isHovered \/ state.mouth = NULL THEN s
     ELSE IF Len(opts) = 0 THEN s
     ELSE CASE feature = 0 -> [s EXCEPT !.mouth = pick]
            [] feature = 1 -> [s EXCEPT !.eyes = pick]
            [] OTHER -> [s EXCEPT !.eyebrow = pick]

changeRandomFeature(s, feature, r) ==
  LET state == s.stateRef
      key == CASE feature = 0 -> "mouth" [] feature = 1 -> "eyes"
               [] OTHER -> "eyebrow"
      cur == CASE feature = 0 -> state.mouth [] feature = 1 -> state.eyes
               [] OTHER -> state.eyebrow
      opts == SelectSeq(getFallbackOptions(key), LAMBDA v : v # cur)
      pick == opts[((r - 1) % Len(opts)) + 1]
  IN IF state.isHovered \/ state.mouth = NULL THEN s
     ELSE IF Len(opts) = 0 THEN s
     ELSE CASE feature = 0 -> [s EXCEPT !.mouth = pick]
            [] feature = 1 -> [s EXCEPT !.eyes = pick]
            [] OTHER -> [s EXCEPT !.eyebrow = pick]

idleDelay(baseDelay) ==
  LET speed == IF animationSpeed # 0 THEN animationSpeed ELSE DefaultSpeed
  IN Max(MinIdleDelay, (baseDelay * speed) \div 2000)

\* a variant that does not clear the timer that is pending
scheduleNextChangeKeepsTimer(s, baseDelay) ==
  LET state == s.stateRef
      id == FreshId(s)
  IN IF state.isHovered \/ state.mouth = NULL THEN s
     ELSE [setTimer(s, id, "idle", idleDelay(baseDelay), 0, NoTriple, TRUE)
             EXCEPT !.animationIntervalRef = id]

scheduleNextChange(s, baseDelay) ==
  LET s1 == IF s.animationIntervalRef # 0
            THEN [clearTimeout(s, s.animationIntervalRef)
                    EXCEPT !.animationIntervalRef = 0]
            ELSE s
      state == s1.stateRef
      id == FreshId(s1)
  IN IF state.isHovered \/ state.mouth = NULL THEN s1
     ELSE [setTimer(s1, id, "idle", idleDelay(baseDelay), 0, NoTriple, TRUE)
             EXCEPT !.animationIntervalRef = id]

\* the callback of the timer scheduleNextChange arms
idleCallback(s, feature, r, baseDelay) ==
  scheduleNextChange(
    changeRandomFeature([s EXCEPT !.animationIntervalRef = 0], feature, r),
    baseDelay)

-----------------------------------------------------------------------------
(* Hover sequence *)

startHoverSequence(s) ==
  LET id == FreshId(s)
  IN IF ~hasHoverAnimation THEN s
     ELSE [setTimer(s, id, "hover", hoverAnimationSpeed, 0, NoTriple, FALSE)
             EXCEPT !.hoverIntervalRef = id]

\* a variant whose counter i is never incremented
hoverCallbackNoIncrement(s, t) ==
  LET seq == IF Len(props.hoverSequence) > 0 THEN props.hoverSequence
             ELSE getDefaultHoverSequence
      e == seq[(t.idx % Len(seq)) + 1]
  IN [s EXCEPT !.mouth = e.mouth, !.eyes = e.eyes, !.eyebrow = e.eyebrow,
               !.timers = @ \cup {[t EXCEPT !.rem = hoverAnimationSpeed]}]

\* one tick of the setInterval callback; t.idx is i modulo the sequence length
hoverCallback(s, t) ==
  LET seq == IF Len(props.hoverSequence) > 0 THEN props.hoverSequence
             ELSE getDefaultHoverSequence
      e == seq[(t.idx % Len(seq)) + 1]
  IN [s EXCEPT !.mouth = e.mouth, !.eyes = e.eyes, !.eyebrow = e.eyebrow,
               !.timers = @ \cup
                 {[t EXCEPT !.rem = hoverAnimationSpeed,
                            !.idx = (t.idx + 1) % Len(seq)]}]

-----------------------------------------------------------------------------
(* Hover enter *)

saveOriginalProps(s) ==
  IF props.originalEyeType # NULL \/ props.originalEyebrowType # NULL
     \/ props.originalMouthType # NULL
  THEN [s EXCEPT !.originalPropsRef =
          [eyeType |-> props.originalEyeType,
           eyebrowType |-> props.originalEyebrowType,
           mouthType |-> props.originalMouthType]]
  ELSE IF props.eyeType # NULL \/ props.eyebrowType # NULL
          \/ props.mouthType # NULL
  THEN [s EXCEPT !.originalPropsRef =
          [eyeType |-> props.eyeType, eyebrowType |-> props.eyebrowType,
           mouthType |-> props.mouthType]]
  ELSE s

pauseIdle(s) ==
  LET s1 == [s EXCEPT !.savedStateRef =
               [mouth |-> Or(s.mouth, "Default"),
                eyes |-> Or(s.eyes, "Default"),
                eyebrow |-> Or(s.eyebrow, "Default")]]
  IN IF s1.animationIntervalRef # 0
     THEN [clearTimeout(s1, s1.animationIntervalRef)
             EXCEPT !.animationIntervalRef = 0]
     ELSE s1

\* "Clear any pending restore timeout", of both pointer handlers
clearRestoreTimeout(s) ==
  IF s.restoreTimeoutRef # 0
  THEN [clearTimeout(s, s.restoreTimeoutRef) EXCEPT !.restoreTimeoutRef = 0]
  ELSE s

handleMouseEnter(s) ==
  LET s1 == clearRestoreTimeout(s)
      s2 == [s1 EXCEPT !.isHovered = TRUE, !.isMouseHovered = TRUE]
      s3 == saveOriginalProps(s2)
      s4 == [s3 EXCEPT !.savedStateRef =
               [mouth |-> Or(props.mouthType, Or(s.mouth, "Default")),
                eyes |-> Or(props.eyeType, Or(s.eyes, "Default")),
                eyebrow |-> Or(props.eyebrowType, Or(s.eyebrow, "Default"))]]
      s5 == IF canAnimateExpressions
            THEN [s4 EXCEPT
                    !.mouth = IF props.mouthType # NULL /\ s.mouth = NULL
                              THEN props.mouthType ELSE @,
                    !.eyes = IF props.eyeType # NULL /\ s.eyes = NULL
                             THEN props.eyeType ELSE @,
                    !.eyebrow = IF props.eyebrowType # NULL /\ s.eyebrow = NULL
                                THEN props.eyebrowType ELSE @]
            ELSE s4
  IN IF ~needsHoverHandlers THEN s
     ELSE IF hasHoverAnimation
     THEN IF isIdleAnimating THEN startHoverSequence(pauseIdle(s3))
          ELSE startHoverSequence(s5)
     ELSE IF isIdleAnimating THEN pauseIdle(s3)
     ELSE s3

-----------------------------------------------------------------------------
(* Hover exit and the stepped restoration *)

\* the end of a restoration that resumes idle animation
finishRestoreIdle(s, baseDelay) ==
  LET s1 == [s EXCEPT !.isHovered = FALSE, !.stateRef.isHovered = FALSE,
                      !.savedStateRef = NoTriple, !.isSchedulingRef = FALSE]
  IN [scheduleNextChange(s1, baseDelay)
        EXCEPT !.restoreSequenceTimeoutRef = 0, !.restoreTimeoutRef = 0]

\* the end of a restoration that hands the expression back to the props
finishRestoreProps(s) ==
  [s EXCEPT !.isHovered = FALSE,
            !.mouth = s.originalPropsRef.mouthType,
            !.eyes = s.originalPropsRef.eyeType,
            !.eyebrow = s.originalPropsRef.eyebrowType,
            !.originalPropsRef = NoProps, !.savedStateRef = NoTriple,
            !.restoreSequenceTimeoutRef = 0, !.restoreTimeoutRef = 0]

finishRestore(s, idle, baseDelay) ==
  IF idle THEN finishRestoreIdle(s, baseDelay) ELSE finishRestoreProps(s)

\* a variant that sets the expression but never arms the next step
restoreNextStalls(s, idle, target, changeIndex, baseDelay) ==
  CASE changeIndex = 0 -> [s EXCEPT !.mouth = target.mouth]
    [] changeIndex = 1 -> [s EXCEPT !.eyes = target.eyes]
    [] OTHER -> [s EXCEPT !.eyebrow = target.eyebrow]

\* restoreNext of either branch: target is expressionsToRestore, changeIndex
\* the closure's counter
restoreNext(s, idle, target, changeIndex, baseDelay) ==
  LET s1 == CASE changeIndex = 0 -> [s EXCEPT !.mouth = target.mouth]
              [] changeIndex = 1 -> [s EXCEPT !.eyes = target.eyes]
              [] OTHER -> [s EXCEPT !.eyebrow = target.eyebrow]
      id == FreshId(s1)
  IN IF changeIndex >= 3 THEN finishRestore(s, idle, baseDelay)
     ELSE IF changeIndex + 1 < 3
     THEN [setTimer(s1, id, "restoreStep", ChangeDelay, changeIndex + 1,
                    target, idle)
             EXCEPT !.restoreSequenceTimeoutRef = id]
     ELSE [setTimer(s1, id, "restoreHold", HoldDelay, changeIndex + 1,
                    target, idle)
             EXCEPT !.restoreSequenceTimeoutRef = id]

\* the callback of the 600 ms timer handleMouseLeave arms
restoreDelayCallback(s, idle, baseDelay) ==
  IF s.savedStateRef # NoTriple
  THEN restoreNext(s, idle, s.savedStateRef, 0, baseDelay)
  ELSE IF idle
  THEN [scheduleNextChange(
          [s EXCEPT !.isHovered = FALSE, !.stateRef.isHovered = FALSE,
                    !.isSchedulingRef = FALSE], baseDelay)
          EXCEPT !.restoreTimeoutRef = 0]
  ELSE [s EXCEPT !.isHovered = FALSE,
                 !.mouth = s.originalPropsRef.mouthType,
                 !.eyes = s.originalPropsRef.eyeType,
                 !.eyebrow = s.originalPropsRef.eyebrowType,
                 !.originalPropsRef = NoProps, !.restoreTimeoutRef = 0]

handleMouseLeave(s, baseDelay) ==
  LET s1 == clearRestoreTimeout(s)
      s2 == IF s1.hoverIntervalRef # 0
            THEN [clearTimeout(s1, s1.hoverIntervalRef)
                    EXCEPT !.hoverIntervalRef = 0]
            ELSE s1
      s3 == [s2 EXCEPT !.isMouseHovered = FALSE]
      id == FreshId(s3)
  IN IF ~needsHoverHandlers THEN s
     ELSE IF hasHoverAnimation /\ s3.savedStateRef # NoTriple
     THEN [setTimer(s3, id, "restoreDelay", RestorePause, 0, NoTriple,
                    isIdleAnimating)
             EXCEPT !.restoreTimeoutRef = id]
     ELSE IF isIdleAnimating /\ s3.savedStateRef # NoTriple
     THEN scheduleNextChange(
            [s3 EXCEPT !.mouth = s3.savedStateRef.mouth,
                       !.eyes = s3.savedStateRef.eyes,
                       !.eyebrow = s3.savedStateRef.eyebrow,
                       !.savedStateRef = NoTriple,
                       !.stateRef.isHovered = FALSE,
                       !.isSchedulingRef = FALSE], baseDelay)
     ELSE s3

-----------------------------------------------------------------------------
(* Unmount *)

\* a variant that forgets the idle timer
cleanupKeepsIdleTimer(s) ==
  [s EXCEPT
     !.timers = {t \in @ : t.id \notin
                   {s.hoverIntervalRef, s.restoreTimeoutRef,
                    s.restoreSequenceTimeoutRef}},
     !.hoverIntervalRef = 0,
     !.restoreTimeoutRef = 0, !.restoreSequenceTimeoutRef = 0,
     !.isSchedulingRef = FALSE]

cleanup(s) ==
  [s EXCEPT
     !.timers = {t \in @ : t.id \notin
                   {s.animationIntervalRef, s.hoverIntervalRef,
                    s.restoreTimeoutRef, s.restoreSequenceTimeoutRef}},
     !.animationIntervalRef = 0, !.hoverIntervalRef = 0,
     !.restoreTimeoutRef = 0, !.restoreSequenceTimeoutRef = 0,
     !.isSchedulingRef = FALSE]

-----------------------------------------------------------------------------
(* Rendering: the effects that run after a commit *)

\* the random initial expression of the idle-init effect
InitPicks ==
  {[mouth |-> m, eyes |-> e, eyebrow |-> b] :
     m \in {getFallbackOptions("mouth")[i] :
              i \in 1..Len(getFallbackOptions("mouth"))},
     e \in {getFallbackOptions("eyes")[i] :
              i \in 1..Len(getFallbackOptions("eyes"))},
     b \in {getFallbackOptions("eyebrow")[i] :
              i \in 1..Len(getFallbackOptions("eyebrow"))}}

\* stateRef synchronisation, deps [isHovered, mouth, eyes, eyebrow]
syncStateRef(prev, s, first) ==
  IF first \/ Cells(s) # Cells(prev)
  THEN [s EXCEPT !.stateRef = Cells(s)] ELSE s

\* idle start effect, deps [isIdleAnimating, mouth, scheduleNextChange]
idleStartEffect(prev, s, first, baseDelay) ==
  IF ~(first \/ s.mouth # prev.mouth) THEN s
  ELSE IF ~isIdleAnimating THEN [s EXCEPT !.isSchedulingRef = FALSE]
  ELSE IF s.mouth = NULL \/ s.isSchedulingRef THEN s
  ELSE scheduleNextChange([s EXCEPT !.isSchedulingRef = TRUE], baseDelay)

\* idle init effect, deps [isIdleAnimating, getFallbackOptions, mouth, eyes,
\* eyebrow]: the cells it sets take effect in the next render
idleInitEffect(prev, s, first, pick) ==
  IF ~(first \/ s.mouth # prev.mouth \/ s.eyes # prev.eyes
       \/ s.eyebrow # prev.eyebrow) THEN s
  ELSE IF ~isIdleAnimating THEN s
  ELSE [s EXCEPT !.mouth = IF @ = NULL THEN pick.mouth ELSE @,
                 !.eyes = IF @ = NULL THEN pick.eyes ELSE @,
                 !.eyebrow = IF @ = NULL THEN pick.eyebrow ELSE @]

\* one commit: the effects in declaration order, run against the render's
\* values; the result carries the cells the effects have set
commitOnce(prev, s, first, pick, baseDelay) ==
  LET s1 == syncStateRef(prev, s, first)
      s2 == idleStartEffect(prev, s1, first, baseDelay)
      s3 == idleInitEffect(prev, s, first, pick)
  IN [s2 EXCEPT !.mouth = s3.mouth, !.eyes = s3.eyes, !.eyebrow = s3.eyebrow]

\* the renders that follow a handler: prev is the component before the
\* handler ran, s after it.  State set while unmounted is dropped.
Render(prev, s, first, pick, baseDelay) ==
  IF phase = "unmounted"
  THEN [s EXCEPT !.mouth = prev.mouth, !.eyes = prev.eyes,
                 !.eyebrow = prev.eyebrow, !.isHovered = prev.isHovered,
                 !.isMouseHovered = prev.isMouseHovered]
  ELSE LET r1 == commitOnce(prev, s, first, pick, baseDelay)
       IN IF Cells(r1) = Cells(s) THEN r1
          ELSE commitOnce(s, r1, FALSE, pick, baseDelay)

-----------------------------------------------------------------------------
(* The expression the avatar renders *)

isHoverAnimatingWithProps ==
  /\ isHovered /\ hasHoverAnimation /\ ~isIdleAnimating
  /\ (props.eyeType # NULL \/ props.eyebrowType # NULL
      \/ props.mouthType # NULL)

finalEyeType ==
  IF isHoverAnimatingWithProps THEN Or(eyes, Or(props.eyeType, "Default"))
  ELSE Or(props.eyeType, Or(eyes, "Default"))

finalEyebrowType ==
  IF isHoverAnimatingWithProps
  THEN Or(eyebrow, Or(props.eyebrowType, "Default"))
  ELSE Or(props.eyebrowType, Or(eyebrow, "Default"))

\* a variant in which the prop wins during a hover sequence as well
finalMouthTypePropFirst == Or(props.mouthType, Or(mouth, "Default"))

finalMouthType ==
  IF isHoverAnimatingWithProps THEN Or(mouth, Or(props.mouthType, "Default"))
  ELSE Or(props.mouthType, Or(mouth, "Default"))

\* the same three values for the next render, of the component s under the
\* props p
finalTypes(s, p) ==
  LET idle == hasIdleAnimation /\ p.eyeType = NULL /\ p.eyebrowType = NULL
                /\ p.mouthType = NULL
      hoverAnimatingWithProps ==
        /\ s.isHovered /\ hasHoverAnimation /\ ~idle
        /\ (p.eyeType # NULL \/ p.eyebrowType # NULL \/ p.mouthType # NULL)
  IN IF hoverAnimatingWithProps
     THEN [eyeType |-> Or(s.eyes, Or(p.eyeType, "Default")),
           eyebrowType |-> Or(s.eyebrow, Or(p.eyebrowType, "Default")),
           mouthType |-> Or(s.mouth, Or(p.mouthType, "Default"))]
     ELSE [eyeType |-> Or(p.eyeType, Or(s.eyes, "Default")),
           eyebrowType |-> Or(p.eyebrowType, Or(s.eyebrow, "Default")),
           mouthType |-> Or(p.mouthType, Or(s.mouth, "Default"))]

-----------------------------------------------------------------------------
(* The option registry (OptionContext) *)

\* the keys of the options the registry is constructed with
Catalog == {"topType", "mouthType"}

\* the keys a Selector may carry: those of the catalog and one outside it
SelectorKeys == Catalog \cup {"unlisted"}

\* the optionValue tags of the components in play
Tags == {"A", "B"}

SelIds == 1..MaxSelectors

\* the registry and the Selectors' local value cells as one record
Reg ==
  [state |-> ctxState, data |-> ctxData, listeners |-> stateChangeListeners,
   values |-> [i \in SelIds |-> selectors[i].value],
   vlisteners |-> valueChangeListeners, calls |-> <<>>]

\* stands for the null getOptionState returns
NoOptionState ==
  [key |-> NULL, available |-> 0, options |-> <<>>, defaultValue |-> NULL]

getOptionState(r, key) ==
  IF key \in DOMAIN r.state THEN r.state[key] ELSE NoOptionState

\* a variant that does not fall back to the default
getValueNoDefault(r, key) ==
  IF getOptionState(r, key) = NoOptionState THEN NULL ELSE r.data[key]

getValue(r, key) ==
  IF getOptionState(r, key) = NoOptionState THEN NULL
  ELSE IF r.data[key] # NULL THEN r.data[key]
  ELSE getOptionState(r, key).defaultValue

\* Selector's handleUpdate, the listener of selector i subscribed for key
handleUpdate(r, i, key) == [r EXCEPT !.values[i] = getValue(r, key)]

\* the members of a listener Set one after the other
RECURSIVE iterate(_)
iterate(S) ==
  IF S = {} THEN <<>>
  ELSE LET l == CHOOSE x \in S : \A y \in S : x.sel <= y.sel
       IN <<l>> \o iterate(S \ {l})

\* every listener is called once: it reads the registry and sets its own
\* Selector's cell
notifyListener(r) ==
  [r EXCEPT !.values =
     [i \in SelIds |->
        IF \E l \in r.listeners : l.sel = i
        THEN getValue(r, (CHOOSE l \in r.listeners : l.sel = i).key)
        ELSE r.values[i]],
            !.calls = @ \o [n \in 1..Cardinality(r.listeners) |->
                              [kind |-> "state", listener |-> iterate(r.listeners)[n].sel,
                               key |-> NULL, value |-> NULL]]]

setState(r, key, optionState) ==
  notifyListener([r EXCEPT !.state[key] = optionState])

addStateChangeListener(r, listener) ==
  [r EXCEPT !.listeners = @ \cup {listener}]

removeStateChangeListener(r, listener) ==
  [r EXCEPT !.listeners = @ \ {listener}]

\* Set.add: a listener that is subscribed already keeps its place
addValueChangeListener(r, listener) ==
  IF \E n \in 1..Len(r.vlisteners) : r.vlisteners[n] = listener THEN r
  ELSE [r EXCEPT !.vlisteners = Append(@, listener)]

removeValueChangeListener(r, listener) ==
  [r EXCEPT !.vlisteners = SelectSeq(@, LAMBDA l : l # listener)]

\* a variant that does not count the entering component
optionEnterUncounted(r, key) == r

optionEnter(r, key) ==
  IF getOptionState(r, key) = NoOptionState THEN r
  ELSE setState(r, key,
         [getOptionState(r, key) EXCEPT !.available = @ + 1])

\* a variant that does not count the leaving component
optionExitUncounted(r, key) == r

optionExit(r, key) ==
  IF getOptionState(r, key) = NoOptionState THEN r
  ELSE setState(r, key,
         [getOptionState(r, key) EXCEPT !.available = @ - 1])

\* the value listeners are called with (key, value), one after the other
notifyValueListeners(r, key, value) ==
  [r EXCEPT !.calls = @ \o [n \in 1..Len(r.vlisteners) |->
                              [kind |-> "value", listener |-> r.vlisteners[n],
                               key |-> key, value |-> value]]]

\* a variant that notifies the state listeners before the value listeners
setValueStateFirst(r, key, value) ==
  notifyValueListeners(notifyListener([r EXCEPT !.data[key] = value]), key, value)

setValue(r, key, value) ==
  notifyListener(notifyValueListeners([r EXCEPT !.data[key] = value], key, value))

\* a variant that notifies no listener
setDataUnnotified(r, data) == [r EXCEPT !.data = data]

\* a variant that keeps the values of the keys the new map leaves out
setDataMerging(r, data) ==
  notifyListener([r EXCEPT !.data =
                    [k \in DOMAIN r.data |->
                       IF data[k] # NULL THEN data[k] ELSE r.data[k]]])

\* data: a value or NULL (no entry) for every key
setData(r, data) == notifyListener([r EXCEPT !.data = data])

setDefaultValue(r, key, defaultValue) ==
  IF getOptionState(r, key) = NoOptionState THEN r
  ELSE setState(r, key,
         [getOptionState(r, key) EXCEPT !.defaultValue = defaultValue])

setOptions(r, key, options) ==
  IF getOptionState(r, key) = NoOptionState THEN r
  ELSE setState(r, key,
         [getOptionState(r, key) EXCEPT !.key = key, !.options = options])

-----------------------------------------------------------------------------
(* Selector: the subscription effect and its cleanup *)

\* a variant that registers any non-empty list
registersNonEmpty(values) == Len(values) > 0

\* the condition under which the extracted tags are registered
registersOptions(values) ==
  /\ Len(values) > 0
  /\ Cardinality({values[n] : n \in 1..Len(values)}) = Len(values)

\* the effect body for selector i with option.key, the default's tag and the
\* tags of childrenRef.current
subscribe(r, i, key, defaultValue, values) ==
  LET r1 == addStateChangeListener(r, [sel |-> i, key |-> key])
      r2 == optionEnter(r1, key)
      optionState == getOptionState(r2, key)
      r3 == IF registersOptions(values) THEN setOptions(r2, key, values)
            ELSE r2
      r4 == IF optionState # NoOptionState THEN setDefaultValue(r3, key, defaultValue)
            ELSE r3
  IN handleUpdate(r4, i, key)

\* a variant that leaves the listener subscribed
unsubscribeKeepsListener(r, i, key) == optionExit(r, key)

\* the effect's cleanup
unsubscribe(r, i, key) ==
  optionExit(removeStateChangeListener(r, [sel |-> i, key |-> key]), key)

\* a variant that falls back to the first child when no child matches
resultOrFirst(children, value) ==
  IF value = NULL THEN 0
  ELSE LET matches == {n \in 1..Len(children) : children[n] = value}
       IN IF matches = {} THEN 1
          ELSE CHOOSE n \in matches : \A m \in matches : m <= n

\* what the Selector renders: the place among its children of the child it
\* returns, 0 for null
result(children, value) ==
  IF value = NULL THEN 0
  ELSE LET matches == {n \in 1..Len(children) : children[n] = value}
       IN IF matches = {} THEN 0
          ELSE CHOOSE n \in matches : \A m \in matches : m <= n

\* the children lists a Selector is given, by tag
ChildrenLists ==
  {<<>>, <<"B">>, <<"A", "B">>, <<"A", "B", "A">>}

\* the props a Selector is given: every default and children list for one
\* category, one default and children list for the other keys
SelectorProps ==
  {[key |-> "topType", defaultOption |-> d, children |-> c] :
     d \in Tags, c \in ChildrenLists} \cup
  {[key |-> "mouthType", defaultOption |-> "Default",
    children |-> <<"Default", "Smile">>],
   [key |-> "unlisted", defaultOption |-> "A", children |-> <<"A", "B">>]}

\* the values the avatar writes
RootValues == {"B"}

NoSelector ==
  [mounted |-> FALSE, key |-> NULL, defaultOption |-> NULL,
   children |-> <<>>, value |-> NULL]

NoOp == [op |-> "none", key |-> NULL, value |-> NULL]

ApplyContext(r, sel, op) ==
  /\ ctxState' = r.state
  /\ ctxData' = r.data
  /\ stateChangeListeners' = r.listeners
  /\ valueChangeListeners' = r.vlisteners
  /\ calls' = r.calls
  /\ lastOp' = op
  /\ selectors' = [i \in SelIds |->
                     IF sel[i].mounted THEN [sel[i] EXCEPT !.value = r.values[i]]
                     ELSE NoSelector]

ApplyReg(r, sel, op) == ApplyContext(r, sel, op) /\ UNCHANGED animVars

RegInit ==
  /\ ctxState = [k \in Catalog |->
                   [key |-> k, available |-> 0, options |-> <<>>,
                    defaultValue |-> NULL]]
  /\ ctxData = [k \in SelectorKeys |-> NULL]
  /\ stateChangeListeners = {}
  /\ valueChangeListeners = <<>>
  /\ selectors = [i \in SelIds |-> NoSelector]
  /\ calls = <<>>
  /\ lastOp = NoOp

\* Selector i mounts with props p: first render, then the subscription effect
mountSelector(i, p) ==
    /\ ~selectors[i].mounted
    /\ ApplyReg(subscribe(Reg, i, p.key, p.defaultOption, p.children),
                [selectors EXCEPT ![i] =
                   [mounted |-> TRUE, key |-> p.key,
                    defaultOption |-> p.defaultOption,
                    children |-> p.children, value |-> NULL]],
                [op |-> "mount", key |-> p.key, value |-> NULL])

SelMount == \E i \in SelIds, p \in SelectorProps : mountSelector(i, p)

\* the mounted Selector i is given another option key or default: the cleanup
\* of the previous effect runs, then the effect again
rebindSelector(i, p) ==
    /\ selectors[i].mounted
    /\ p.children = selectors[i].children
    /\ p.key # selectors[i].key \/ p.defaultOption # selectors[i].defaultOption
    /\ ApplyReg(subscribe(unsubscribe(Reg, i, selectors[i].key), i, p.key,
                          p.defaultOption, selectors[i].children),
                [selectors EXCEPT ![i].key = p.key,
                                  ![i].defaultOption = p.defaultOption],
                [op |-> "rebind", key |-> p.key, value |-> NULL])

SelRebind == \E i \in SelIds, p \in SelectorProps : rebindSelector(i, p)

SelUnmount ==
  \E i \in SelIds :
    /\ selectors[i].mounted
    /\ ApplyReg(unsubscribe(Reg, i, selectors[i].key),
                [selectors EXCEPT ![i] = NoSelector],
                [op |-> "unmount", key |-> selectors[i].key, value |-> NULL])

\* the avatar writes an option value into the registry
RootSetValue ==
  \E key \in Catalog, v \in RootValues :
    /\ key \in DOMAIN ctxData
    /\ ApplyReg(setValue(Reg, key, v), selectors,
                [op |-> "setValue", key |-> key, value |-> v])

RegNext ==
  \/ SelMount
  \/ SelRebind
  \/ SelUnmount
  \/ RootSetValue

ListenerIds == 1..MaxListeners

\* the (key, value) pairs callers of the registry write
CallerValues ==
  {<<"mouthType", "Smile">>, <<"mouthType", "Unknown">>, <<"unlisted", "Smile">>}

\* the maps callers hand to setData
CallerData ==
  {[k \in SelectorKeys |-> NULL],
   [k \in SelectorKeys |-> IF k = "topType" THEN "B" ELSE NULL]}

\* a caller of the registry writes a value
CallSetValue ==
  \E kv \in CallerValues :
    /\ kv[1] \in DOMAIN ctxData
    /\ ApplyReg(setValue(Reg, kv[1], kv[2]), selectors,
                [op |-> "setValue", key |-> kv[1], value |-> kv[2]])

\* a caller of the registry replaces all values
CallSetData ==
  \E data \in CallerData :
    /\ DOMAIN data = DOMAIN ctxData
    /\ ApplyReg(setData(Reg, data), selectors,
                [op |-> "setData", key |-> NULL, value |-> data])

CallAddValueChangeListener ==
  \E l \in ListenerIds :
    /\ Len(valueChangeListeners) < MaxListeners
    /\ ApplyReg(addValueChangeListener(Reg, l), selectors,
                [op |-> "addValueChangeListener", key |-> NULL, value |-> NULL])

CallRemoveValueChangeListener ==
  \E l \in ListenerIds :
    /\ Len(valueChangeListeners) > 0
    /\ ApplyReg(removeValueChangeListener(Reg, l), selectors,
                [op |-> "removeValueChangeListener", key |-> NULL, value |-> NULL])

\* the Selectors next to which the callers act: a mouth Selector, one whose
\* children repeat a tag, one for a key outside the catalog
CallSelectorProps ==
  {[key |-> "mouthType", defaultOption |-> "Default",
    children |-> <<"Default", "Smile">>],
   [key |-> "unlisted", defaultOption |-> "Smile",
    children |-> <<"Default", "Smile">>]} \cup
  {[key |-> "topType", defaultOption |-> d, children |-> <<"A", "B", "A">>] :
     d \in Tags}

CallSelMount == \E i \in SelIds, p \in CallSelectorProps : mountSelector(i, p)

CallSelRebind == \E i \in SelIds, p \in CallSelectorProps : rebindSelector(i, p)

CallNext ==
  \/ CallSelMount
  \/ CallSelRebind
  \/ SelUnmount
  \/ RootSetValue
  \/ CallSetValue
  \/ CallSetData
  \/ CallAddValueChangeListener
  \/ CallRemoveValueChangeListener

-----------------------------------------------------------------------------
(* AvatarComponent writing its option props into the registry *)

TOP_TYPES ==
  {"NoHair", "Eyepatch", "Hat", "Hijab", "Turban", "WinterHat1", "WinterHat2",
   "WinterHat3", "WinterHat4", "LongHairBigHair", "LongHairBob", "LongHairBun",
   "LongHairCurly", "LongHairCurvy", "LongHairDreads", "LongHairFrida",
   "LongHairFro", "LongHairFroBand", "LongHairMiaWallace",
   "LongHairNotTooLong", "LongHairShavedSides", "LongHairStraight",
   "LongHairStraight2", "LongHairStraightStrand", "ShortHairDreads01",
   "ShortHairDreads02", "ShortHairFrizzle", "ShortHairShaggyMullet",
   "ShortHairShortCurly", "ShortHairShortFlat", "ShortHairShortRound",
   "ShortHairShortWaved", "ShortHairSides", "ShortHairTheCaesar",
   "ShortHairTheCaesarSidePart"}

MOUTH_TYPES ==
  {"Concerned", "Default", "Disbelief", "Eating", "Grimace", "Sad",
   "ScreamOpen", "Serious", "Smile", "Tongue", "Twinkle", "Vomit"}

\* the entries of the validation map for the keys of the catalog
OPTION_VALIDATION_MAP == [topType |-> TOP_TYPES, mouthType |-> MOUTH_TYPES]

\* the option keys of the catalog, in the order the effects visit them
ALL_OPTION_KEYS == <<"topType", "mouthType">>

\* the value if it is one of the key's valid values, NULL (undefined) otherwise
validateOptionValue(key, value) ==
  IF value = NULL THEN NULL
  ELSE IF value \in OPTION_VALIDATION_MAP[key] THEN value ELSE NULL

\* the initialisation effect, from key n of ALL_OPTION_KEYS on
RECURSIVE initEffect(_, _, _)
initEffect(r, p, n) ==
  IF n > Len(ALL_OPTION_KEYS) THEN r
  ELSE LET key == ALL_OPTION_KEYS[n]
       IN initEffect(IF validateOptionValue(key, p[key]) # NULL
                     THEN setValue(r, key, validateOptionValue(key, p[key]))
                     ELSE r,
                     p, n + 1)

\* a variant that writes every valid prop, changed or not
RECURSIVE propsEffectNoDiff(_, _, _, _)
propsEffectNoDiff(r, prevProps, p, n) ==
  IF n > Len(ALL_OPTION_KEYS) THEN r
  ELSE LET key == ALL_OPTION_KEYS[n]
       IN propsEffectNoDiff(IF validateOptionValue(key, p[key]) # NULL
                            THEN setValue(r, key, validateOptionValue(key, p[key]))
                            ELSE r,
                            prevProps, p, n + 1)

\* the effect that follows the props, from key n of ALL_OPTION_KEYS on
RECURSIVE propsEffect(_, _, _, _)
propsEffect(r, prevProps, p, n) ==
  IF n > Len(ALL_OPTION_KEYS) THEN r
  ELSE LET key == ALL_OPTION_KEYS[n]
       IN propsEffect(IF /\ p[key] # NULL
                         /\ p[key] # prevProps[key]
                         /\ validateOptionValue(key, p[key]) # NULL
                      THEN setValue(r, key, validateOptionValue(key, p[key]))
                      ELSE r,
                      prevProps, p, n + 1)

\* the effect that feeds the final expression back; of the three expression
\* categories the catalog has mouthType
finalEffect(r, finalMouth) == setValue(r, "mouthType", finalMouth)

RenderOp == [op |-> "render", key |-> NULL, value |-> NULL]

-----------------------------------------------------------------------------
(* The avatar's life: mount, pointer events, the clock, timer callbacks *)

\* hoverSequence as configured (<<>>: not configured)
HoverSequences ==
  {<<>>, SubSeq(getDefaultHoverSequence, 1, 1),
   SubSeq(getDefaultHoverSequence, 1, 2)}

OtherOriginal ==
  [eyeType |-> "Wink", eyebrowType |-> "Angry", mouthType |-> "Sad"]

\* A configuration.  A hover scale is paired with no hover sequence only: next
\* to a sequence it changes the CSS transform and nothing else.
Config(expr, a, h, q, o) ==
  [mouthType |-> expr.mouthType, eyeType |-> expr.eyeType,
   eyebrowType |-> expr.eyebrowType, topType |-> NULL, animationSpeed |-> a,
   hoverScale |-> h, hoverSequence |-> q,
   hoverAnimationSpeed |-> CHOOSE v \in RawHoverAnimationSpeeds : TRUE,
   originalMouthType |-> o.mouthType, originalEyeType |-> o.eyeType,
   originalEyebrowType |-> o.eyebrowType]

HoverConfigs ==
  {<<h, <<>> >> : h \in RawHoverScales} \cup
  {<<0, q>> : q \in HoverSequences \ {<<>>}}

FullProps ==
  [eyeType |-> "Happy", eyebrowType |-> "Default", mouthType |-> "Smile"]

\* every way of supplying some of the three expression props
ExprProps ==
  {[eyeType |-> e, eyebrowType |-> b, mouthType |-> m] :
     m \in {NULL, FullProps.mouthType}, e \in {NULL, FullProps.eyeType},
     b \in {NULL, FullProps.eyebrowType}}

IdleSequence(p) ==
  /\ p.animationSpeed # 0
  /\ p.mouthType = NULL /\ p.eyeType = NULL /\ p.eyebrowType = NULL
  /\ p.hoverSequence # <<>>

\* every configuration but those that combine idle animation with a hover
\* sequence
PropsLight ==
  {p \in {Config(x, a, hq[1], hq[2], o) :
            x \in ExprProps, a \in RawAnimationSpeeds, hq \in HoverConfigs,
            o \in {NoProps, OtherOriginal}} : ~IdleSequence(p)}

\* idle animation combined with a hover sequence
PropsIdleSequence ==
  {Config(NoProps, 100, 0, q, NoProps) : q \in HoverSequences \ {<<>>}}

PropsSet == PropsLight \cup PropsIdleSequence

\* a hover sequence without and with expression props, and idle animation
\* with a hover scale
PropsReentry ==
  {Config(x, 0, 0, SubSeq(getDefaultHoverSequence, 1, 1), NoProps) :
     x \in {NoProps, FullProps}} \cup
  {Config(NoProps, 100, 120, <<>>, NoProps)}

RestoreKinds == {"restoreDelay", "restoreStep", "restoreHold"}

ApplyCells(s) ==
  /\ mouth' = s.mouth
  /\ eyes' = s.eyes
  /\ eyebrow' = s.eyebrow
  /\ isHovered' = s.isHovered
  /\ isMouseHovered' = s.isMouseHovered
  /\ animationIntervalRef' = s.animationIntervalRef
  /\ hoverIntervalRef' = s.hoverIntervalRef
  /\ restoreTimeoutRef' = s.restoreTimeoutRef
  /\ restoreSequenceTimeoutRef' = s.restoreSequenceTimeoutRef
  /\ savedStateRef' = s.savedStateRef
  /\ originalPropsRef' = s.originalPropsRef
  /\ isSchedulingRef' = s.isSchedulingRef
  /\ stateRef' = s.stateRef
  /\ timers' = s.timers

\* the effect that feeds the final expression back runs in the commits in
\* which one of the three final values has changed
feedBack(r, s, p) ==
  IF finalTypes(s, p) # finalTypes(Cur, props)
  THEN finalEffect(r, finalTypes(s, p).mouthType)
  ELSE r

\* the component after a handler and the renders that follow it, under the
\* same props
Apply(s) ==
  /\ ApplyCells(s)
  /\ IF finalTypes(s, props) # finalTypes(Cur, props)
     THEN ApplyContext(feedBack(Reg, s, props), selectors, RenderOp)
     ELSE UNCHANGED regVars

\* the restore timers of s that were pending in `before` as well
Surviving(before, s) ==
  {t.id : t \in {u \in s.timers : u.kind \in RestoreKinds /\ u \in before}}

\* the restore timers of s that were armed since `before`
Armed(before, s) ==
  {t.id : t \in {u \in s.timers : u.kind \in RestoreKinds /\ u \notin before}}

\* the avatar as constructed; counting says whether the run counts the ticks
\* of the hover interval
AnimStart(configs, budget, counting) ==
  /\ phase = "init"
  /\ props \in configs
  /\ mouth = NULL /\ eyes = NULL /\ eyebrow = NULL
  /\ isHovered = FALSE /\ isMouseHovered = FALSE
  /\ animationIntervalRef = 0 /\ hoverIntervalRef = 0
  /\ restoreTimeoutRef = 0 /\ restoreSequenceTimeoutRef = 0
  /\ savedStateRef = NoTriple /\ originalPropsRef = NoProps
  /\ isSchedulingRef = FALSE
  /\ stateRef = [isHovered |-> FALSE, mouth |-> NULL, eyes |-> NULL,
                 eyebrow |-> NULL]
  /\ timers = {}
  /\ pointerOver = FALSE
  /\ hovers = 0
  /\ hoverBudget = budget
  /\ abandoned = {}
  /\ entry = "none"
  /\ last = [kind |-> "init", stale |-> FALSE]
  /\ ticks = [counting |-> counting, n |-> 0]

AnimInit(configs, budget) == AnimStart(configs, budget, FALSE)

\* the avatar mounts: the first render, the effects in the order they are
\* declared, and the render and effect that follow if idle initialisation
\* changed the final expression
Mount ==
  /\ phase = "init"
  /\ \E pick \in InitPicks, bd \in BaseDelays :
       LET s == Render(Cur, Cur, TRUE, pick, bd)
       IN /\ ApplyCells(s)
          /\ ApplyContext(
               feedBack(finalEffect(initEffect(Reg, props, 1), finalMouthType),
                        s, props),
               selectors, RenderOp)
  /\ phase' = "mounted"
  /\ last' = [kind |-> "mount", stale |-> FALSE]
  /\ UNCHANGED <<props, pointerOver, hovers, hoverBudget, abandoned,
                 entry, ticks>>

MouseEnter ==
  /\ phase = "mounted" /\ ~pointerOver
  /\ hovers < hoverBudget
  /\ hovers' = hovers + 1
  /\ pointerOver' = TRUE
  /\ \E bd \in BaseDelays :
       LET s == handleMouseEnter(Cur)
       IN /\ Apply(Render(Cur, s, FALSE, NoTriple, bd))
          /\ abandoned' = IF needsHoverHandlers THEN Surviving(timers, s)
                          ELSE abandoned
  /\ entry' = IF \E t \in timers : t.kind \in {"restoreStep", "restoreHold"}
              THEN "stepping"
              ELSE IF \E t \in timers : t.kind = "restoreDelay"
              THEN "pausing" ELSE "fresh"
  /\ last' = [kind |-> "enter", stale |-> FALSE]
  /\ ticks' = [ticks EXCEPT !.n = 0]
  /\ UNCHANGED <<phase, props, hoverBudget>>

MouseLeave ==
  /\ phase = "mounted" /\ pointerOver
  /\ pointerOver' = FALSE
  /\ \E bd \in BaseDelays :
       LET s == handleMouseLeave(Cur, bd)
       IN /\ Apply(Render(Cur, s, FALSE, NoTriple, bd))
          /\ abandoned' = abandoned \cap Surviving(timers, s)
  /\ last' = [kind |-> "leave", stale |-> FALSE]
  /\ UNCHANGED <<phase, props, hovers, hoverBudget, entry, ticks>>

Unmount ==
  /\ phase = "mounted"
  /\ phase' = "unmounted"
  /\ Apply(cleanup(Cur))
  /\ abandoned' = abandoned \cap {t.id : t \in cleanup(Cur).timers}
  /\ pointerOver' = FALSE
  /\ last' = [kind |-> "unmount", stale |-> FALSE]
  /\ UNCHANGED <<props, hovers, hoverBudget, entry, ticks>>

Tick ==
  /\ timers # {}
  /\ \A t \in timers : t.rem > 0
  /\ timers' = {[t EXCEPT !.rem = @ - 100] : t \in timers}
  /\ last' = [kind |-> "tick", stale |-> FALSE]
  /\ UNCHANGED <<phase, props, mouth, eyes, eyebrow, isHovered,
                 isMouseHovered, animationIntervalRef, hoverIntervalRef,
                 restoreTimeoutRef, restoreSequenceTimeoutRef, savedStateRef,
                 originalPropsRef, isSchedulingRef, stateRef, pointerOver,
                 hovers, hoverBudget, abandoned, entry, ticks>>
  /\ UNCHANGED regVars

\* the component once the event loop has taken timer t off its list
Without(t) == [Cur EXCEPT !.timers = @ \ {t}]

Fired(t, s, bd) ==
  /\ Apply(Render(Cur, s, FALSE, NoTriple, bd))
  /\ abandoned' = (abandoned \cap Surviving(timers \ {t}, s))
                    \cup (IF t.id \in abandoned THEN Armed(timers \ {t}, s)
                          ELSE {})
  /\ last' = [kind |-> t.kind, stale |-> t.id \in abandoned]
  /\ ticks' = IF t.kind = "hover" /\ ticks.counting
              THEN [ticks EXCEPT !.n = @ + 1] ELSE ticks
  /\ UNCHANGED <<phase, props, pointerOver, hovers, hoverBudget,
                 entry>>

FireIdle ==
  \E t \in timers :
    /\ t.kind = "idle" /\ t.rem <= 0
    /\ \E feature \in 0..2, r \in 1..MaxOpts, bd \in BaseDelays :
         Fired(t, idleCallback(Without(t), feature, r, bd), bd)

FireHover ==
  \E t \in timers :
    /\ t.kind = "hover" /\ t.rem <= 0
    /\ ticks.n < MaxTicks
    /\ \E bd \in BaseDelays : Fired(t, hoverCallback(Without(t), t), bd)

FireRestoreDelay ==
  \E t \in timers :
    /\ t.kind = "restoreDelay" /\ t.rem <= 0
    /\ \E bd \in BaseDelays :
         Fired(t, restoreDelayCallback(Without(t), t.idle, bd), bd)

FireRestoreStep ==
  \E t \in timers :
    /\ t.kind = "restoreStep" /\ t.rem <= 0
    /\ \E bd \in BaseDelays :
         Fired(t, restoreNext(Without(t), t.idle, t.target, t.idx, bd), bd)

FireRestoreHold ==
  \E t \in timers :
    /\ t.kind = "restoreHold" /\ t.rem <= 0
    /\ \E bd \in BaseDelays :
         Fired(t, finishRestore(Without(t), t.idle, bd), bd)

AnimNext ==
  \/ Mount
  \/ MouseEnter
  \/ MouseLeave
  \/ Unmount
  \/ Tick
  \/ FireIdle
  \/ FireHover
  \/ FireRestoreDelay
  \/ FireRestoreStep
  \/ FireRestoreHold

Init == AnimInit(PropsSet, MaxHovers) /\ RegInit

Spec == Init /\ [][AnimNext]_vars

InitLight == AnimInit(PropsLight, MaxHovers) /\ RegInit

SpecLight == InitLight /\ [][AnimNext]_vars

\* a few configurations, followed through one more hover
InitReentry == AnimInit(PropsReentry, MaxReentries) /\ RegInit

SpecReentry == InitReentry /\ [][AnimNext]_vars

\* the registry and its Selectors, the avatar's animation left aside
InitRegistry ==
  AnimInit({Config(NoProps, 0, 0, <<>>, NoProps)}, 0) /\ RegInit

SpecRegistry == InitRegistry /\ [][RegNext]_vars

InitCalls ==
  AnimInit({Config(NoProps, 0, 0, <<>>, NoProps)}, 0) /\ RegInit

SpecCalls == InitCalls /\ [][CallNext]_vars

TypeOK ==
  /\ phase \in {"init", "mounted", "unmounted"}
  /\ \A t \in timers : t.rem >= 0 /\ t.rem % 100 = 0
  /\ abandoned \subseteq {t.id : t \in timers}

-----------------------------------------------------------------------------
(* Properties of the animation coordinator *)

\* C1: once the pointer has re-entered the avatar, no restore timer that was
\* pending at that moment is still pending, and no callback of the abandoned
\* restoration runs afterwards.
C1_ReentryCancelsRestoration ==
  /\ abandoned = {}
  /\ ~(last.kind \in RestoreKinds /\ last.stale)

\* C2: after unmount no timer of the component is pending (so no callback can
\* run and no cell can change).
C2_UnmountLeavesNoTimer == phase = "unmounted" => timers = {}

\* C3: while idle animation runs and the pointer has never entered, exactly
\* one idle timer is pending and animationIntervalRef holds it; unmounting
\* then leaves no timer behind, so nothing runs after the unmount.
C3_UnmountCancelsIdleTimer ==
  (isIdleAnimating /\ hovers = 0) =>
    /\ phase = "mounted" =>
         /\ \A t \in timers : t.kind = "idle" /\ t.id = animationIntervalRef
         /\ Cardinality(timers) = 1
    /\ phase = "unmounted" =>
         /\ timers = {}
         /\ animationIntervalRef = 0
         /\ last.kind = "unmount"

C3_Witness ==
  /\ phase = "unmounted" /\ isIdleAnimating /\ hovers = 0
  /\ mouth # NULL /\ stateRef.mouth # NULL

\* C4: when the pointer enters while no restore step is pending (at most the
\* 600 ms pause of the previous exit is), then for as long as it stays over
\* the avatar the hover-active flag is true, the only pending timer is the
\* hover interval, and nothing but the hover sequence runs.
C4_ReentryBeforeRestoreFires ==
  (pointerOver /\ hasHoverAnimation /\ entry # "stepping") =>
    /\ isHovered
    /\ \A t \in timers : t.kind = "hover" /\ t.id = hoverIntervalRef
    /\ last.kind \in {"enter", "tick", "hover"}

\* C5: with explicit expression props and a hover sequence, once a single
\* hover-enter and hover-exit are over and every restore timer has fired, each
\* expression that has a prop renders that prop again; without original*
\* overrides the whole rendered triple is the one rendered before the hover.
C5_RestoreReturnsToProps ==
  (/\ phase = "mounted" /\ ~pointerOver /\ hovers = 1 /\ timers = {}
   /\ hasHoverAnimation
   /\ (props.eyeType # NULL \/ props.eyebrowType # NULL
       \/ props.mouthType # NULL)) =>
    /\ ~isHovered
    /\ props.mouthType # NULL => finalMouthType = props.mouthType
    /\ props.eyeType # NULL => finalEyeType = props.eyeType
    /\ props.eyebrowType # NULL => finalEyebrowType = props.eyebrowType
    /\ (props.originalMouthType = NULL /\ props.originalEyeType = NULL
        /\ props.originalEyebrowType = NULL) =>
         /\ finalMouthType = Or(props.mouthType, "Default")
         /\ finalEyeType = Or(props.eyeType, "Default")
         /\ finalEyebrowType = Or(props.eyebrowType, "Default")

C5_Witness ==
  /\ phase = "mounted" /\ ~pointerOver /\ hovers = 1 /\ timers = {}
  /\ Len(props.hoverSequence) = 2
  /\ props.eyeType # NULL /\ props.eyebrowType # NULL
  /\ props.mouthType # NULL
  /\ last.kind = "restoreHold"

C7_SteppedRestoreThenIdle ==
  (isIdleAnimating /\ hasHoverAnimation) =>
    /\ last.kind = "leave" =>
         /\ ~isMouseHovered /\ hoverIntervalRef = 0
         /\ \A t \in timers : t.kind # "hover"
         /\ \E t \in timers : t.kind = "restoreDelay" /\ t.rem = RestorePause
    /\ (~pointerOver /\ \E t \in timers : t.kind \in RestoreKinds) =>
         /\ isHovered
         /\ \A t \in timers : t.kind # "idle"
    /\ ~pointerOver =>
         \A t \in timers :
           /\ (t.kind = "restoreStep" /\ t.idx = 1) => mouth = t.target.mouth
           /\ (t.kind = "restoreStep" /\ t.idx = 2) =>
                (mouth = t.target.mouth /\ eyes = t.target.eyes)
           /\ t.kind = "restoreHold" =>
                /\ mouth = t.target.mouth /\ eyes = t.target.eyes
                /\ eyebrow = t.target.eyebrow
    /\ last.kind = "restoreHold" =>
         /\ ~isHovered
         /\ \E t \in timers : t.kind = "idle" /\ t.id = animationIntervalRef

-----------------------------------------------------------------------------
(* Properties of the registry and the Selector *)

\* C8: the reference count of every category is never negative, and once
\* every optionEnter on it has been answered by its optionExit (no binding
\* is left subscribed for the key) it is back at its starting value, 0.
C8_PairedEnterExit ==
  \A k \in Catalog :
    /\ ctxState[k].available >= 0
    /\ (\A l \in stateChangeListeners : l.key # k) => ctxState[k].available = 0

C8_Witness ==
  /\ stateChangeListeners = {}
  /\ \A k \in Catalog :
       ctxState[k].available = 0 /\ ctxState[k].defaultValue # NULL

\* C9: the reference count of every category is the number of Selectors
\* currently mounted for it, after any mount, key or default change, and
\* unmount.
C9_CountIsMountedBindings ==
  \A k \in Catalog :
    ctxState[k].available =
      Cardinality({i \in SelIds : selectors[i].mounted /\ selectors[i].key = k})

C9_Witness ==
  /\ ctxState["topType"].available = 2
  /\ \A i \in 1..2 : selectors[i].mounted /\ selectors[i].key = "topType"
  /\ ctxState["mouthType"].available = 0
  /\ ctxState["mouthType"].defaultValue # NULL

-----------------------------------------------------------------------------
(* The avatar next to the Selectors it renders *)

\* the option props a caller passes: none, a valid value, a value that is not
\* among the valid values; no animation is configured
OptionProps ==
  {[Config([eyeType |-> NULL, eyebrowType |-> NULL, mouthType |-> m],
           0, 0, <<>>, NoProps) EXCEPT !.topType = t] :
     m \in {NULL, "Smile", "Bogus"}, t \in {NULL, "NoHair", "Bogus"}}

\* the caller passes other option props: with no animation configured the
\* render leaves the cells and refs alone, then the effects run
RootProps ==
  /\ phase = "mounted"
  /\ \E p \in OptionProps :
       /\ p # props
       /\ DOMAIN p = DOMAIN props
       /\ props' = p
  /\ last' = [kind |-> "props", stale |-> FALSE]
  /\ UNCHANGED <<phase, compVars, pointerOver, hovers, hoverBudget,
                 abandoned, entry, ticks>>
  /\ LET r1 == propsEffect(Reg, props, props', 1)
         r2 == IF finalMouthType' # finalMouthType
               THEN finalEffect(r1, finalMouthType')
               ELSE r1
     IN ApplyContext(r2, selectors, RenderOp)

\* the avatar next to the Selectors it renders
RootNext ==
  \/ Mount
  \/ RootProps
  \/ CallSelMount
  \/ SelUnmount

InitRoot == AnimInit(OptionProps, 0) /\ RegInit

SpecRoot == InitRoot /\ [][RootNext]_vars

-----------------------------------------------------------------------------
(* The avatar under idle and hover intervals in and out of range *)

\* animationSpeed as the caller passes it: whether it is passed, and its value
\* (0 where it is not passed: undefined and 0 take the same branch)
RawIdleIntervals == {<<FALSE, 0>>, <<TRUE, 0>>, <<TRUE, 100>>, <<TRUE, 10000>>}

\* hoverAnimationSpeed as the caller passes it (300, the default of the
\* destructuring, where it is not passed)
RawHoverIntervals == {<<FALSE, 300>>, <<TRUE, 0>>, <<TRUE, 5000>>}

\* configurations with a hover sequence of one element; configured names the
\* interval props the caller passed
IntervalProps ==
  {[Config(x, a[2], 0, SubSeq(getDefaultHoverSequence, 1, 1), NoProps)
      EXCEPT !.hoverAnimationSpeed = m[2]]
     @@ [configured |-> (IF a[1] THEN {"animationSpeed"} ELSE {})
                          \cup (IF m[1] THEN {"hoverAnimationSpeed"} ELSE {})] :
     x \in {NoProps, [NoProps EXCEPT !.mouthType = "Smile"]},
     a \in RawIdleIntervals, m \in RawHoverIntervals}

InitIntervals == AnimInit(IntervalProps, 1) /\ RegInit

SpecIntervals == InitIntervals /\ [][AnimNext]_vars

-----------------------------------------------------------------------------
(* Properties of the registry's value operations and of Selector resolution *)

\* what the registry is to resolve key to: the explicit value, else the
\* default, else null
Resolved(key) ==
  IF ctxData[key] # NULL THEN ctxData[key]
  ELSE IF key \in Catalog /\ ctxState[key].defaultValue # NULL
  THEN ctxState[key].defaultValue
  ELSE NULL

\* C11: for every key, getValue returns the explicit value when one is
\* present in the value map, else the registered default, else null; so does
\* the value every mounted Selector read with getValue when it was notified.
C11_GetValueResolves ==
  /\ \A k \in SelectorKeys : getValue(Reg, k) = Resolved(k)
  /\ \A i \in SelIds :
       selectors[i].mounted => selectors[i].value = Resolved(selectors[i].key)

\* the registry after the step
RegAfter ==
  [state |-> ctxState', data |-> ctxData', listeners |-> stateChangeListeners',
   values |-> [i \in SelIds |-> selectors'[i].value],
   vlisteners |-> valueChangeListeners', calls |-> <<>>]

\* C12 as stated: while a category has a default and no explicit value, every
\* step other than a setValue for that key leaves getValue returning the
\* registered default.
C12_DefaultUntilSetValue ==
  [][\A k \in Catalog :
       (/\ ctxData[k] = NULL
        /\ ctxState[k].defaultValue # NULL
        /\ ~(lastOp'.op = "setValue" /\ lastOp'.key = k)) =>
         getValue(RegAfter, k) = ctxState'[k].defaultValue]_vars

\* C12, amended: the same for every step other than a setValue for that key
\* and a setData whose map has a value for that key.
C12_DefaultUntilSetValueOrSetData ==
  [][\A k \in Catalog :
       (/\ ctxData[k] = NULL
        /\ ctxState[k].defaultValue # NULL
        /\ ~(lastOp'.op = "setValue" /\ lastOp'.key = k)
        /\ ~(lastOp'.op = "setData" /\ lastOp'.value[k] # NULL)) =>
         /\ getValue(RegAfter, k) = ctxState'[k].defaultValue
         /\ \A i \in SelIds :
              (selectors'[i].mounted /\ selectors'[i].key = k) =>
                selectors'[i].value = ctxState'[k].defaultValue]_vars

\* a setData that gives the category no value has run next to a Selector
\* that goes on showing the category's default
C12_Witness ==
  /\ lastOp.op = "setData"
  /\ ctxData["mouthType"] = NULL
  /\ ctxState["mouthType"].defaultValue = "Default"
  /\ \E i \in SelIds :
       /\ selectors[i].mounted /\ selectors[i].key = "mouthType"
       /\ selectors[i].value = "Default"

\* C13: a step that runs registry operations with a key outside the catalog
\* only (a Selector for such a key mounting or unmounting, a setValue for
\* such a key) changes neither the option states nor the value map.
C13_UnknownKeyIsNoOp ==
  [][(/\ lastOp'.op \in {"mount", "unmount", "setValue"}
      /\ lastOp'.key \notin Catalog) =>
       (ctxState' = ctxState /\ ctxData' = ctxData)]_vars

\* the calls of the value listeners in a log, and those of the state listeners
ValueCalls(log) == SelectSeq(log, LAMBDA c : c.kind = "value")

StateCalls(log) == SelectSeq(log, LAMBDA c : c.kind = "state")

\* every state listener was called exactly once in the log
EachStateListenerOnce(log) ==
  /\ Len(StateCalls(log)) = Cardinality(stateChangeListeners)
  /\ \A l \in stateChangeListeners :
       \E n \in 1..Len(log) : log[n].kind = "state" /\ log[n].listener = l.sel

\* C14: after a setValue(key, value) the value is stored, every subscribed
\* value listener has been called exactly once with (key, value), every
\* subscribed state listener exactly once, no state listener before the last
\* value listener, and the state listeners have read the stored value.
C14_SetValueNotifiesValueThenState ==
  lastOp.op = "setValue" =>
    /\ ctxData[lastOp.key] = lastOp.value
    /\ ValueCalls(calls) =
         [n \in 1..Len(valueChangeListeners) |->
            [kind |-> "value", listener |-> valueChangeListeners[n],
             key |-> lastOp.key, value |-> lastOp.value]]
    /\ EachStateListenerOnce(calls)
    /\ calls = ValueCalls(calls) \o StateCalls(calls)
    /\ \A i \in SelIds :
         (/\ selectors[i].mounted /\ selectors[i].key = lastOp.key
          /\ lastOp.key \in Catalog) => selectors[i].value = lastOp.value

C14_Witness ==
  /\ lastOp = [op |-> "setValue", key |-> "mouthType", value |-> "Smile"]
  /\ Len(valueChangeListeners) = 2
  /\ Cardinality(stateChangeListeners) = 2
  /\ Len(calls) = 4
  /\ \E i \in SelIds : selectors[i].key = "mouthType" /\ selectors[i].value = "Smile"

\* C15: after a setData(map) the value map is exactly the given map, every
\* Selector of a category the map has no value for shows the category's
\* default, every state listener has been called exactly once and no value
\* listener has been called.
C15_SetDataReplacesAndNotifiesState ==
  lastOp.op = "setData" =>
    /\ ctxData = lastOp.value
    /\ ValueCalls(calls) = <<>>
    /\ EachStateListenerOnce(calls)
    /\ \A i \in SelIds :
         (/\ selectors[i].mounted /\ selectors[i].key \in Catalog
          /\ lastOp.value[selectors[i].key] = NULL) =>
           selectors[i].value = ctxState[selectors[i].key].defaultValue

C15_Witness ==
  /\ lastOp.op = "setData"
  /\ lastOp.value["topType"] = "B" /\ ctxData["mouthType"] = NULL
  /\ Len(valueChangeListeners) = 2
  /\ Len(calls) = 2
  /\ \E i \in SelIds :
       /\ selectors[i].mounted /\ selectors[i].key = "mouthType"
       /\ selectors[i].value = "Default"

\* C16: a mounted Selector whose children are tagged "Default" and "Smile"
\* renders the child whose tag is the registry's current value for its
\* category, and nothing when that value is the tag of neither child (an
\* explicit "Unknown" included), also when a default is registered.
C16_ResolvesToMatchingCandidate ==
  \A i \in SelIds :
    (/\ selectors[i].mounted
     /\ selectors[i].key = "mouthType"
     /\ selectors[i].children = <<"Default", "Smile">>) =>
      result(selectors[i].children, selectors[i].value) =
        IF getValue(Reg, "mouthType") = "Default" THEN 1
        ELSE IF getValue(Reg, "mouthType") = "Smile" THEN 2
        ELSE 0

C16_Witness ==
  /\ ctxData["mouthType"] = "Unknown"
  /\ ctxState["mouthType"].defaultValue = "Default"
  /\ \E i \in SelIds :
       /\ selectors[i].mounted /\ selectors[i].key = "mouthType"
       /\ selectors[i].children = <<"Default", "Smile">>
       /\ result(selectors[i].children, selectors[i].value) = 0

\* C17: a mounted Selector renders the first of its children, in the order
\* given, whose tag is its locally held value, also when several children
\* carry that tag; nothing when there is none.
C17_FirstMatchingCandidate ==
  \A i \in SelIds :
    selectors[i].mounted =>
      LET children == selectors[i].children
          matches == {n \in 1..Len(children) : children[n] = selectors[i].value}
      IN result(children, selectors[i].value) =
           IF matches = {} THEN 0
           ELSE CHOOSE n \in matches : \A m \in matches : n <= m

\* C18: an option prop whose value is not among its category's valid values
\* is never written to the registry: once the avatar is mounted, no category
\* of the catalog (mouthType included) holds such a value.
C18_InvalidPropIgnored ==
  phase = "mounted" =>
    \A n \in 1..Len(ALL_OPTION_KEYS) :
      LET key == ALL_OPTION_KEYS[n]
      IN ctxData[key] # NULL => ctxData[key] \in OPTION_VALIDATION_MAP[key]

-----------------------------------------------------------------------------
(* Properties of the configured intervals *)

\* C19: idle animation is active exactly when the caller passed an idle
\* interval, whatever its value, and no mouth, eyes or eyebrow value: so says
\* the flag the component derives, and right after mount an idle timer is
\* pending exactly then.
C19_IdleIffConfiguredAndNoProps ==
  phase = "mounted" =>
    LET claimed == /\ "animationSpeed" \in props.configured
                   /\ props.mouthType = NULL /\ props.eyeType = NULL
                   /\ props.eyebrowType = NULL
    IN /\ isIdleAnimating <=> claimed
       /\ last.kind = "mount" =>
            ((\E t \in timers : t.kind = "idle") <=> claimed)

\* C20: the idle interval in effect is max(500, min(3000, n)) for every idle
\* interval n the caller passed, and the hover sequence ticks every
\* max(100, min(2000, m)) ms for every hover interval m the caller passed.
C20_IntervalsClamped ==
  phase = "mounted" =>
    /\ "animationSpeed" \in props.configured =>
         animationSpeed = Max(500, Min(3000, props.animationSpeed))
    /\ ("hoverAnimationSpeed" \in props.configured
          /\ last.kind \in {"enter", "hover"}) =>
         \A t \in timers :
           t.kind = "hover" =>
             t.rem = Max(100, Min(2000, props.hoverAnimationSpeed))

-----------------------------------------------------------------------------
(* The avatar under hover scale factors at and around the clamp's floor *)

\* hoverScale as the caller passes it, in hundredths
RawScaleFactors == {100, 105, 120, 200}

\* configurations with a hover scale and no hover sequence, with and without
\* idle animation
ScaleProps ==
  {Config(NoProps, a, h, <<>>, NoProps) :
     a \in {0, 100}, h \in RawScaleFactors}

\* the factor of the CSS transform of the container, in hundredths
transform ==
  IF isMouseHovered /\ hasHoverScale
  THEN (IF hoverScale # 0 THEN hoverScale ELSE 120)
  ELSE 100

\* what can happen to an avatar without a hover sequence
ScaleNext ==
  \/ Mount
  \/ MouseEnter
  \/ MouseLeave
  \/ Unmount
  \/ Tick
  \/ FireIdle

InitScales == AnimInit(ScaleProps, MaxHovers) /\ RegInit

SpecScales == InitScales /\ [][ScaleNext]_vars

\* an idle timer is due: its callback is the next thing the event loop runs
IdleDue == \E t \in timers : t.kind = "idle" /\ t.rem <= 0

\* time passes while no timer is due, and a due idle timer does not stay due
\* for ever (its callback runs unless it is cleared first)
SpecScalesFair == SpecScales /\ WF_vars(Tick) /\ []<>(~IdleDue)

\* C21: the hover scale in effect is the configured factor clamped to
\* [1.05, 1.32]; a configured 1.05 makes hover scale active and the avatar is
\* scaled by it while the pointer is over it; a configured 1.0 does not make
\* hover scale active and the avatar is never scaled.
C21_ScaleClampedAndActiveAbove1 ==
  phase = "mounted" =>
    /\ hoverScale = Max(105, Min(132, props.hoverScale))
    /\ props.hoverScale = 105 =>
         (hasHoverScale /\ (pointerOver => transform = 105))
    /\ props.hoverScale = 100 => (~hasHoverScale /\ transform = 100)

-----------------------------------------------------------------------------
(* Piece: one avatar piece with a registry of its own *)

\* Piece's effect, from key n of ALL_OPTION_KEYS on
RECURSIVE pieceEffect(_, _, _, _)
pieceEffect(r, prevProps, p, n) ==
  IF n > Len(ALL_OPTION_KEYS) THEN r
  ELSE LET key == ALL_OPTION_KEYS[n]
       IN pieceEffect(IF p[key] # NULL /\ p[key] # prevProps[key]
                      THEN setValue(r, key, p[key])
                      ELSE r,
                      prevProps, p, n + 1)

\* the Piece mounts: prevPropsRef was constructed with the props of the first
\* render, and the effect runs against it
PieceMount ==
  /\ phase = "init"
  /\ phase' = "mounted"
  /\ last' = [kind |-> "mount", stale |-> FALSE]
  /\ UNCHANGED <<props, compVars, pointerOver, hovers, hoverBudget, abandoned,
                 entry, ticks>>
  /\ ApplyContext(pieceEffect(Reg, props, props, 1), selectors, RenderOp)

\* the caller passes other props to the mounted Piece
PieceProps ==
  /\ phase = "mounted"
  /\ \E p \in OptionProps :
       /\ p # props
       /\ props' = p
  /\ last' = [kind |-> "props", stale |-> FALSE]
  /\ UNCHANGED <<phase, compVars, pointerOver, hovers, hoverBudget,
                 abandoned, entry, ticks>>
  /\ ApplyContext(pieceEffect(Reg, props, props', 1), selectors, RenderOp)

\* the Piece next to the Selectors it renders
PieceNext ==
  \/ PieceMount
  \/ PieceProps
  \/ CallSelMount
  \/ SelUnmount

SpecPiece == InitRoot /\ [][PieceNext]_vars

\* C22: from the mount of a Piece until its props change, the registry holds
\* the valid mouthType the Piece was mounted with: getValue resolves the
\* category to it, and so does every mounted Selector of the category.
C22_PieceSeedsRegistry ==
  (phase = "mounted" /\ last.kind = "mount"
     /\ props.mouthType \in MOUTH_TYPES) =>
    /\ getValue(Reg, "mouthType") = props.mouthType
    /\ \A i \in SelIds :
         (selectors[i].mounted /\ selectors[i].key = "mouthType") =>
           selectors[i].value = props.mouthType

-----------------------------------------------------------------------------
(* Properties of idle scheduling *)

IdleTimers(T) == {t \in T : t.kind = "idle"}

\* an idle tick that changes one of the three expression cells
IdleMutation ==
  FireIdle /\ <<mouth, eyes, eyebrow>>' # <<mouth, eyes, eyebrow>>

\* C23: with idle animation and a hover scale only, if from some moment on
\* the avatar stays mounted with the pointer away after at least one hover,
\* idle ticks go on changing the expression for ever.
C23_IdleResumesAfterScaleHover ==
  <>[](phase = "mounted" /\ isIdleAnimating /\ hovers > 0 /\ ~pointerOver)
    => []<><<IdleMutation>>_vars

\* C26: at most one idle timer is pending, and it is the one
\* animationIntervalRef holds.
C26_OneIdleTimer ==
  /\ Cardinality(IdleTimers(timers)) <= 1
  /\ \A t \in IdleTimers(timers) : t.id = animationIntervalRef

\* after a restoration has handed over to idle scheduling, an idle tick has
\* changed the mouth and the idle start effect has scheduled once more
C26_Witness ==
  /\ last.kind = "idle" /\ hovers > 0 /\ ~pointerOver /\ ~isHovered
  /\ isSchedulingRef /\ hasHoverAnimation
  /\ Cardinality(IdleTimers(timers)) = 1

\* C27: an idle tick that fires in a mounted avatar while idle animation is
\* running and the avatar is not hovered changes exactly one of mouth, eyes and eyebrow, to a
\* member of that cell's fallback list other than its value before the tick,
\* leaves the other two cells as they were, and schedules the next tick.
C27_IdleTickChangesOneCell ==
  [][(last'.kind = "idle" /\ phase = "mounted" /\ isIdleAnimating
        /\ ~isHovered) =>
       LET new(key, v) == \E i \in 1..Len(getFallbackOptions(key)) :
                            v = getFallbackOptions(key)[i]
       IN /\ \/ /\ mouth' # mouth /\ new("mouth", mouth')
                /\ eyes' = eyes /\ eyebrow' = eyebrow
             \/ /\ eyes' # eyes /\ new("eyes", eyes')
                /\ mouth' = mouth /\ eyebrow' = eyebrow
             \/ /\ eyebrow' # eyebrow /\ new("eyebrow", eyebrow')
                /\ mouth' = mouth /\ eyes' = eyes
          /\ \E t \in IdleTimers(timers') :
               t.id = animationIntervalRef' /\ t.rem > 0]_vars

\* an idle tick has fired in an avatar that is not hovered, after an earlier
\* tick: the eyes have left their first value and the next tick is pending
C27_Witness ==
  /\ last.kind = "idle" /\ ~last.stale /\ isIdleAnimating /\ ~isHovered
  /\ ~pointerOver /\ eyes # "Default" /\ mouth # "Default"
  /\ IdleTimers(timers) # {}

\* C25: while the pointer is over an avatar with a hover scale or a hover
\* sequence, no idle timer is pending and no idle tick runs.
C25_NoIdleWhileHovered ==
  (pointerOver /\ needsHoverHandlers) =>
    /\ IdleTimers(timers) = {}
    /\ last.kind # "idle"

-----------------------------------------------------------------------------
(* The avatar whose expression props change while it is mounted *)

\* the caller passes other expression props, at least one of them set: a
\* mouth, the eyes, or all three.  In the commit the prop effect runs, the
\* idle start effect runs if isIdleAnimating has changed (it has become
\* false), and the feedback effect runs if a final value has changed.
SetProps ==
  /\ phase = "mounted"
  /\ \E x \in {[NoProps EXCEPT !.mouthType = "Sad"],
              [NoProps EXCEPT !.eyeType = "Wink"], OtherOriginal} :
       LET p == [props EXCEPT !.mouthType = x.mouthType,
                              !.eyeType = x.eyeType,
                              !.eyebrowType = x.eyebrowType]
           s == [Cur EXCEPT !.isSchedulingRef =
                   IF isIdleAnimating THEN FALSE ELSE @]
       IN /\ p # props
          /\ props' = p
          /\ ApplyCells(s)
          /\ ApplyContext(feedBack(propsEffect(Reg, props, p, 1), s, p),
                          selectors, RenderOp)
  /\ last' = [kind |-> "props", stale |-> FALSE]
  /\ UNCHANGED <<phase, pointerOver, hovers, hoverBudget, abandoned, entry,
                 ticks>>

LateNext ==
  \/ AnimNext
  \/ SetProps

\* a hover sequence of one element: with idle animation and no expression
\* props, and with expression props
InitLate ==
  /\ AnimInit({Config(NoProps, 100, 0, SubSeq(getDefaultHoverSequence, 1, 1),
                      NoProps),
               Config(FullProps, 0, 0, SubSeq(getDefaultHoverSequence, 1, 1),
                      NoProps)}, 1)
  /\ RegInit

SpecLate == InitLate /\ [][LateNext]_vars

\* C24: once the caller has supplied an explicit mouth, eyes or eyebrow value
\* to the mounted avatar, an idle tick changes none of the three cells and
\* leaves no idle timer pending, and no other step arms an idle timer.
C24_LatePropsStopIdle ==
  [][(phase = "mounted" /\ ~canAnimateExpressions) =>
       /\ last'.kind = "idle" =>
            (/\ <<mouth, eyes, eyebrow>>' = <<mouth, eyes, eyebrow>>
             /\ IdleTimers(timers') = {})
       /\ last'.kind # "idle" =>
            Cardinality(IdleTimers(timers')) <= Cardinality(IdleTimers(timers))
     ]_vars

\* C30: in every state of the mounted avatar the registry's mouthType is the
\* mouth the avatar renders.
C30_RegistryHoldsRenderedExpression ==
  phase = "mounted" => ctxData["mouthType"] = finalMouthType

-----------------------------------------------------------------------------
(* The hover sequence, its ticks counted from each hover-enter *)

InitSequence ==
  /\ AnimStart(PropsIdleSequence \cup
                 {Config(FullProps, 0, 0,
                         SubSeq(getDefaultHoverSequence, 1, 2), NoProps)},
               MaxHovers, TRUE)
  /\ RegInit

SpecSequence == InitSequence /\ [][AnimNext]_vars

\* C28: the k-th tick of the hover interval after a hover-enter sets mouth,
\* eyes and eyebrow to the three values of element (k-1) mod n of the
\* sequence, and once the pointer has left no tick of the interval is pending
\* or fires.
C28_HoverTicksFollowSequence ==
  [][/\ last'.kind = "hover" =>
          LET seq == props.hoverSequence
              e == seq[((ticks'.n - 1) % Len(seq)) + 1]
          IN /\ pointerOver /\ ticks'.n >= 1
             /\ mouth' = e.mouth /\ eyes' = e.eyes /\ eyebrow' = e.eyebrow
     /\ ~pointerOver' => \A t \in timers' : t.kind # "hover"]_vars

\* the third tick of a sequence of two elements has wrapped around to the
\* first
C28_Witness ==
  /\ last.kind = "hover" /\ ticks.n = 3 /\ Len(props.hoverSequence) = 2
  /\ mouth = props.hoverSequence[1].mouth
  /\ eyes = props.hoverSequence[1].eyes
  /\ eyebrow = props.hoverSequence[1].eyebrow

-----------------------------------------------------------------------------
(* Properties of the rendered expression *)

\* C29: each rendered expression value is a function of the current state
\* alone: the animated cell, else the prop, else "Default" when the avatar is
\* hover-active, has a hover sequence, has no idle animation running and was
\* given at least one explicit expression prop; the prop, else the animated
\* cell, else "Default" in every other case.
C29_RenderedValuePrecedence ==
  LET stateFirst ==
        /\ isHovered /\ Len(props.hoverSequence) > 0 /\ ~isIdleAnimating
        /\ \E k \in {"eyeType", "eyebrowType", "mouthType"} : props[k] # NULL
      value(cell, prop) ==
        IF stateFirst
        THEN (IF cell # NULL THEN cell
              ELSE IF prop # NULL THEN prop ELSE "Default")
        ELSE (IF prop # NULL THEN prop
              ELSE IF cell # NULL THEN cell ELSE "Default")
  IN /\ finalMouthType = value(mouth, props.mouthType)
     /\ finalEyeType = value(eyes, props.eyeType)
     /\ finalEyebrowType = value(eyebrow, props.eyebrowType)

\* a tick of the hover sequence shows through an explicit mouth prop, and the
\* eyebrow, which has no prop, shows the sequence as well
C29_Witness ==
  /\ last.kind = "hover" /\ isHovered /\ ~isIdleAnimating
  /\ props.mouthType # NULL /\ props.eyebrowType = NULL
  /\ mouth # NULL /\ mouth # props.mouthType
  /\ finalMouthType = mouth /\ finalEyebrowType = eyebrow

-----------------------------------------------------------------------------
(* Properties of the root's registry writes *)

-----------------------------------------------------------------------------
(* The Selector whose children change while it is mounted *)

\* the mounted Selector i is rendered with other children, its option and its
\* default as before: the effect on [children] stores them in childrenRef; the
\* subscription effect, whose dependencies are optionContext, option.key and
\* defaultOption, does not run
SelChildren ==
  \E i \in SelIds, c \in ChildrenLists :
    /\ selectors[i].mounted
    /\ c # selectors[i].children
    /\ ApplyReg(Reg, [selectors EXCEPT ![i].children = c],
                [op |-> "children", key |-> selectors[i].key, value |-> NULL])

ChildrenNext ==
  \/ RegNext
  \/ SelChildren

SpecChildren == InitRegistry /\ [][ChildrenNext]_vars

\* C32: when a mounted Selector of a catalog category is given other
\* candidates, duplicate-free and not empty, its category and default as
\* before, the category's valid-value set in the registry is the list of the
\* new candidates' tags.
C32_ChildrenReRegistered ==
  [][\A i \in SelIds :
       (/\ selectors[i].mounted /\ selectors'[i].mounted
        /\ selectors'[i].key = selectors[i].key
        /\ selectors'[i].defaultOption = selectors[i].defaultOption
        /\ selectors'[i].children # selectors[i].children
        /\ registersOptions(selectors'[i].children)
        /\ selectors[i].key \in Catalog) =>
         ctxState'[selectors[i].key].options = selectors'[i].children]_vars

-----------------------------------------------------------------------------
(* The Selector given components without an optionValue *)

\* a variant that takes every component to carry an optionValue
hasOptionValueAlways(component) == TRUE

\* a component is stood for by its optionValue, NULL for one that has none
hasOptionValue(component) == component # NULL

\* a default and children with and without optionValue, for a category of the
\* catalog and for a key outside it
WiringProps ==
  {[key |-> k, defaultOption |-> d, children |-> c] :
     k \in {"topType", "unlisted"}, d \in {"A", NULL},
     c \in {<<"A", "B">>, <<"A", NULL>>}}

\* Selector i mounts with props p.  getComponentOptionValue throws for the
\* default before the effect has touched the registry, and for a child after
\* addStateChangeListener and optionEnter; the effect that threw has returned
\* no cleanup, and React unmounts the Selector.
WiringMount ==
  \E i \in SelIds, p \in WiringProps :
    LET l == [sel |-> i, key |-> p.key]
        op(name) == [op |-> name, key |-> p.key, value |-> p]
    IN /\ ~selectors[i].mounted
       /\ \A x \in stateChangeListeners : x.sel # i
       /\ IF ~hasOptionValue(p.defaultOption)
          THEN ApplyReg(Reg, selectors, op("throw"))
          ELSE IF \E n \in 1..Len(p.children) : ~hasOptionValue(p.children[n])
          THEN ApplyReg(optionEnter(addStateChangeListener(Reg, l), p.key),
                        selectors, op("throw"))
          ELSE ApplyReg(subscribe(Reg, i, p.key, p.defaultOption, p.children),
                        [selectors EXCEPT ![i] =
                           [mounted |-> TRUE, key |-> p.key,
                            defaultOption |-> p.defaultOption,
                            children |-> p.children, value |-> NULL]],
                        op("mount"))

\* the mounted Selector i is rendered with other children: with a value to
\* resolve, the render calls getComponentOptionValue for every child and
\* throws at one without optionValue, and React unmounts the Selector, whose
\* effect cleanup runs
WiringRender ==
  \E i \in SelIds, p \in WiringProps :
    LET op(name) == [op |-> name, key |-> selectors[i].key, value |-> p]
    IN /\ selectors[i].mounted
       /\ p.key = selectors[i].key
       /\ p.defaultOption = selectors[i].defaultOption
       /\ p.children # selectors[i].children
       /\ IF /\ selectors[i].value # NULL
             /\ \E n \in 1..Len(p.children) : ~hasOptionValue(p.children[n])
          THEN ApplyReg(unsubscribe(Reg, i, selectors[i].key),
                        [selectors EXCEPT ![i] = NoSelector], op("throw"))
          ELSE ApplyReg(Reg, [selectors EXCEPT ![i].children = p.children],
                        op("children"))

WiringNext ==
  \/ WiringMount
  \/ WiringRender
  \/ SelUnmount
  \/ RootSetValue

SpecWiring == InitRegistry /\ [][WiringNext]_vars

-----------------------------------------------------------------------------
(* Value listeners that subscribe and unsubscribe while they are notified *)

\* the callers' listeners: one that only takes the value, one that removes
\* the first when it is called, one that adds the first when it is called
ReentrantListeners ==
  {[id |-> 1, does |-> "nothing"], [id |-> 2, does |-> "remove"],
   [id |-> 3, does |-> "add"]}

\* the loop of setValue over the Set valueChangeListeners itself: a listener
\* the loop has not reached when it is deleted is not called, a listener added
\* during the loop is reached at the end of the Set
RECURSIVE notifyValueListenersLive(_, _, _, _)
notifyValueListenersLive(r, key, value, visited) ==
  LET rest == SelectSeq(r.vlisteners, LAMBDA l : l \notin visited)
      l == rest[1]
      first == CHOOSE x \in ReentrantListeners : x.does = "nothing"
      called == [r EXCEPT !.calls = Append(@, [kind |-> "value", listener |-> l,
                                               key |-> key, value |-> value])]
      after == CASE l.does = "remove" -> removeValueChangeListener(called, first)
                 [] l.does = "add" -> addValueChangeListener(called, first)
                 [] OTHER -> called
  IN IF rest = <<>> THEN r
     ELSE notifyValueListenersLive(after, key, value, visited \cup {l})

\* a caller of the registry writes a value
ReentrantSetValue ==
  \E kv \in CallerValues :
    /\ kv[1] \in DOMAIN ctxData
    /\ ApplyReg(notifyListener(
                  notifyValueListenersLive([Reg EXCEPT !.data[kv[1]] = kv[2]],
                                           kv[1], kv[2], {})),
                selectors, [op |-> "setValue", key |-> kv[1], value |-> kv[2]])

\* a caller subscribes or unsubscribes one of its listeners
ReentrantSubscription ==
  \E l \in ReentrantListeners :
    \/ /\ \A n \in 1..Len(valueChangeListeners) : valueChangeListeners[n] # l
       /\ ApplyReg(addValueChangeListener(Reg, l), selectors,
                   [op |-> "addValueChangeListener", key |-> NULL, value |-> NULL])
    \/ /\ \E n \in 1..Len(valueChangeListeners) : valueChangeListeners[n] = l
       /\ ApplyReg(removeValueChangeListener(Reg, l), selectors,
                   [op |-> "removeValueChangeListener", key |-> NULL, value |-> NULL])

ReentrantNext ==
  \/ ReentrantSetValue
  \/ ReentrantSubscription
  \/ CallSelMount
  \/ SelUnmount

SpecReentrant == InitRegistry /\ [][ReentrantNext]_vars

\* C34: the value listeners a setValue calls are the listeners that were
\* subscribed when it began, each exactly once and in their order, whatever
\* the listeners subscribe or unsubscribe while they are called.
C34_NotifiesSnapshot ==
  [][lastOp'.op = "setValue" =>
       [n \in 1..Len(ValueCalls(calls')) |-> ValueCalls(calls')[n].listener]
         = valueChangeListeners]_vars

-----------------------------------------------------------------------------
(* Properties of the Selector's unmount *)

\* C35: the step that unmounts a Selector removes its state listener and
\* lowers the count of its category by exactly one, and no notification, in
\* that step or any later one, calls the listener of a Selector that is not
\* mounted.
C35_UnmountUnsubscribesOnce ==
  [][\A i \in SelIds :
       /\ (selectors[i].mounted /\ ~selectors'[i].mounted) =>
            /\ \A l \in stateChangeListeners' : l.sel # i
            /\ selectors[i].key \in Catalog =>
                 ctxState'[selectors[i].key].available
                   = ctxState[selectors[i].key].available - 1
            /\ \A k \in Catalog \ {selectors[i].key} :
                 ctxState'[k].available = ctxState[k].available
       /\ ~selectors'[i].mounted =>
            \A n \in 1..Len(calls') :
              ~(calls'[n].kind = "state" /\ calls'[n].listener = i)]_vars

\* Selector 1 has unmounted next to Selector 2 of the same category, which
\* the exit has notified
C35_Witness ==
  /\ lastOp.op = "unmount" /\ lastOp.key = "mouthType"
  /\ ~selectors[1].mounted
  /\ selectors[2].mounted /\ selectors[2].key = "mouthType"
  /\ Len(calls) = 1 /\ calls[1].listener = 2
  /\ ctxState["mouthType"].available = 1

-----------------------------------------------------------------------------
(* The avatar as the hover-only preview configures it *)

\* animationSpeed = 100000 next to a hover sequence, without and with
\* explicit expression props
InitPreview ==
  /\ AnimInit({Config(x, 100000, 0, SubSeq(getDefaultHoverSequence, 1, 1),
                      NoProps) : x \in {NoProps, FullProps}}, 1)
  /\ RegInit

SpecPreview == InitPreview /\ [][AnimNext]_vars

\* C36: in the mounted avatar with animationSpeed = 100000 and no explicit
\* expression props idle animation is off: no idle timer is pending and no
\* idle tick has run.
C36_HighIntervalDisablesIdle ==
  (phase = "mounted" /\ props.animationSpeed = 100000
     /\ canAnimateExpressions) =>
    /\ ~isIdleAnimating
    /\ IdleTimers(timers) = {}
    /\ last.kind # "idle"

-----------------------------------------------------------------------------
(* Properties of the state the avatar comes to rest in *)

\* C37: with a hover sequence and no idle animation (and no original
\* expression handed down by a parent), whenever the pointer is away and no
\* timer is pending the avatar is not hover-active and renders the caller's
\* expression props, "Default" for each one the caller did not supply.
C37_RestsAtProps ==
  (/\ phase = "mounted" /\ ~isIdleAnimating /\ hasHoverAnimation
   /\ ~pointerOver /\ timers = {}
   /\ props.originalMouthType = NULL /\ props.originalEyeType = NULL
   /\ props.originalEyebrowType = NULL) =>
    /\ ~isHovered
    /\ finalMouthType = Or(props.mouthType, "Default")
    /\ finalEyeType = Or(props.eyeType, "Default")
    /\ finalEyebrowType = Or(props.eyebrowType, "Default")

\* C38: every pending timer is held by one of the four timer handles, and at
\* most one idle timer, one hover interval, one restore pause and one restore
\* step are pending.
C38_TimersHeldByHandles ==
  /\ \A t \in timers :
       t.id \in {animationIntervalRef, hoverIntervalRef, restoreTimeoutRef,
                 restoreSequenceTimeoutRef}
  /\ \A t, u \in timers :
       (\/ t.kind = u.kind
        \/ {t.kind, u.kind} = {"restoreStep", "restoreHold"}) => t = u

\* C39: the avatar is hover-active only while the pointer is over it or a
\* restore timer (the pause or a step of the restoration) is pending.
C39_HoverActiveOnlyWhileHovering ==
  (phase = "mounted" /\ isHovered) =>
    \/ pointerOver
    \/ \E t \in timers : t.kind \in {"restoreDelay", "restoreStep", "restoreHold"}

-----------------------------------------------------------------------------
(* Properties of the propagation to the Selectors *)

\* C40: between the registry's operations every mounted Selector holds the
\* value the registry resolves its category to.
C40_SelectorsFollowRegistry ==
  \A i \in SelIds :
    selectors[i].mounted =>
      selectors[i].value = getValue(Reg, selectors[i].key)

\* a setData has replaced the values next to two mounted Selectors: one shows
\* the new value of its category, the other has fallen back to its default
C40_Witness ==
  /\ lastOp.op = "setData" /\ lastOp.value["topType"] = "B"
  /\ \E i, j \in SelIds :
       /\ selectors[i].mounted /\ selectors[i].key = "topType"
       /\ selectors[i].value = "B" /\ selectors[i].defaultOption = "A"
       /\ selectors[j].mounted /\ selectors[j].key = "mouthType"
       /\ selectors[j].value = "Default"

====
